---- MODULE Spec2Model ----
(***************************************************************************)
(* Load-test harness of the microservices deployment comparison.           *)
(*                                                                         *)
(* The module models the four load-test scripts of src/load-test           *)
(* (locustfile.py, locustfile_aws.py, locustfile_localstack.py,            *)
(* locustfile_comparison.py): the process-wide SharedState object with its *)
(* single threading.Lock, and the virtual users that call into it between  *)
(* HTTP requests.  A virtual user is a thread of control; a step of the    *)
(* model is one of: acquiring the lock, one statement group of a critical  *)
(* section, issuing an HTTP request, receiving its response, or a          *)
(* scheduling step of the load-generation engine.                          *)
(***************************************************************************)
EXTENDS Integers, Sequences, FiniteSets, TLC

(***************************************************************************)
(* Bounds of the model.                                                    *)
(***************************************************************************)
NumUsers == 2            \* virtual users spawned by the engine
MaxRequests == 7         \* HTTP requests issued in one run
MaxShortRequests == 3    \*   and in a short run
MaxLongRequests == 10    \*   and in a long run
LongRunTarget == 1       \* NUM_INITIAL_PRODUCTS of the long run
MaxProductTarget == 2    \* NUM_INITIAL_PRODUCTS ranges over 0..MaxProductTarget
MaxCheckoutTarget == 1   \* TARGET_CHECKOUTS ranges over 1..MaxCheckoutTarget
MaxProducts == 3         \* products the product service creates in one run
MaxProductId == 2        \* product ids the product service hands out
MaxDeclined == 1         \* declined checkouts of a run that never ends
MAX_ITEMS_PER_CART == 2  \* environment value of MAX_ITEMS_PER_CART

(***************************************************************************)
(* Program constants.                                                      *)
(***************************************************************************)
MIN_ITEMS_PER_CART == 1      \* default of locustfile_aws.py
PROGRESS_INTERVAL == 500     \* locustfile.py: progress line every 500 checkouts
COMPARISON_MIN_PRODUCTS == 10 \* locustfile_comparison.py: on_start threshold
INITIAL_CUSTOMER_ID == 1     \* SharedState.__init__: _customer_id_counter

None == 0                \* Python's None (returned ids are >= 1)
NoThread == 0            \* the lock is free

Users == 1..NumUsers
MetricTypes == <<"product_create", "cart_create", "cart_add_item", "checkout">>
Latency == 1             \* a measured latency (its value is not looked at)
Variants == {"locustfile", "aws", "localstack", "comparison"}

VARIABLES
  variant,               \* which locustfile the engine was started with
  NUM_INITIAL_PRODUCTS,  \* configuration read from the environment
  TARGET_CHECKOUTS,
  run_length,            \* requests issued before the engine ends the run
  lock,                  \* SharedState._lock: holder, or NoThread
  shared_state,          \* the fields of the SharedState singleton
  th,                    \* per virtual user: class, position, locals
  g,                     \* history of the run (calls, requests, responses)
  fs,                    \* compare_results.py: the result and output directories
  proc                   \* compare_results.py: position and locals of main

vars == <<variant, NUM_INITIAL_PRODUCTS, TARGET_CHECKOUTS, run_length, lock, shared_state, th, g,
          fs, proc>>

(***************************************************************************)
(* SharedState: construction and method bodies.  A method body maps the    *)
(* fields to the new fields and a return value (r: integer, b: flag).      *)
(***************************************************************************)
SharedState ==
  [product_ids |-> <<>>,
   setup_complete |-> FALSE,
   checkout_count |-> 0,
   declined_count |-> 0,
   customer_id_counter |-> INITIAL_CUSTOMER_ID,
   metrics |-> [m \in 1..Len(MetricTypes) |-> <<>>]]  \* locustfile_comparison.py

Result(s, r, b) == [s |-> s, r |-> r, b |-> b]

\* a slip: the new id is put in front of the list
add_product_prepend(s, product_id) ==
  Result([s EXCEPT !.product_ids = <<product_id>> \o @], None, FALSE)

\* a slip: the list is rebuilt from the new id instead of appended to
add_product_overwrite(s, product_id) ==
  Result([s EXCEPT !.product_ids = <<product_id>>], None, FALSE)

add_product(s, product_id) ==
  Result([s EXCEPT !.product_ids = Append(@, product_id)], None, FALSE)

\* a slip: the emptiness test is off by one
get_random_product_off_by_one(s, i) ==
  Result(s, IF Len(s.product_ids) > 1 THEN s.product_ids[i] ELSE None, FALSE)

\* random.choice is a choice of index i in 1..len
get_random_product(s, i) ==
  Result(s, IF Len(s.product_ids) > 0 THEN s.product_ids[i] ELSE None, FALSE)

\* a slip: the flag is toggled instead of set
mark_setup_complete_toggle(s) ==
  Result([s EXCEPT !.setup_complete = ~@], None, FALSE)

mark_setup_complete(s) ==
  Result([s EXCEPT !.setup_complete = TRUE], None, FALSE)

\* a slip: the flag is not read
is_setup_complete_always(s) == Result(s, None, TRUE)

is_setup_complete(s) == Result(s, None, s.setup_complete)

\* a slip: the value read before the increment is returned
increment_checkout_returns_old(s, tmp) ==
  Result([s EXCEPT !.checkout_count = tmp + 1], tmp, FALSE)

\* "self._checkout_count += 1" loads the field (tmp) and stores tmp + 1
increment_checkout(s, tmp) ==
  Result([s EXCEPT !.checkout_count = tmp + 1], tmp + 1, FALSE)

\* a slip: the declined path bumps the checkout counter
increment_declined_wrong_field(s, tmp) ==
  Result([s EXCEPT !.checkout_count = tmp + 1], tmp + 1, FALSE)

increment_declined(s, tmp) ==
  Result([s EXCEPT !.declined_count = tmp + 1], tmp + 1, FALSE)

get_checkout_count(s) == Result(s, s.checkout_count, FALSE)

get_declined_count(s) == Result(s, s.declined_count, FALSE)

\* customer_id = counter (tmp); counter += 1; return customer_id
get_next_customer_id(s, tmp) ==
  Result([s EXCEPT !.customer_id_counter = @ + 1], tmp, FALSE)

\* a slip: the count is one too high
get_product_count_off_by_one(s) == Result(s, Len(s.product_ids) + 1, FALSE)

get_product_count(s) == Result(s, Len(s.product_ids), FALSE)

\* locustfile_comparison.py; metric_type is an index of MetricTypes
add_metric(s, metric_type, value) ==
  Result([s EXCEPT !.metrics[metric_type] = Append(@, value)], None, FALSE)

\* the methods whose body reads a field into a local before writing
ReadModifyWrite == {"increment_checkout", "increment_declined", "get_next_customer_id"}

\* the first statement of such a body: the value loaded
Load(op, s) ==
  CASE op = "increment_checkout" -> s.checkout_count
    [] op = "increment_declined" -> s.declined_count
    [] op = "get_next_customer_id" -> s.customer_id_counter

Method(op, s, tmp, arg, i) ==
  CASE op = "add_product" -> add_product(s, arg)
    [] op = "get_random_product" -> get_random_product(s, i)
    [] op = "mark_setup_complete" -> mark_setup_complete(s)
    [] op = "is_setup_complete" -> is_setup_complete(s)
    [] op = "increment_checkout" -> increment_checkout(s, tmp)
    [] op = "increment_declined" -> increment_declined(s, tmp)
    [] op = "get_checkout_count" -> get_checkout_count(s)
    [] op = "get_declined_count" -> get_declined_count(s)
    [] op = "get_next_customer_id" -> get_next_customer_id(s, tmp)
    [] op = "get_product_count" -> get_product_count(s)
    [] op = "add_metric" -> add_metric(s, arg, Latency)

(***************************************************************************)
(* Virtual users.  The position of a user is                               *)
(*   ph: "new"     constructed by the engine, __init__ not yet run         *)
(*       "wait"    blocked on "with self._lock" of method op at site pc    *)
(*       "held"    inside the critical section, nothing executed yet       *)
(*       "held2"   inside it, the field loaded into tmp                    *)
(*       "send"    about to issue the HTTP request pc                      *)
(*       "http"    request pc in flight                                    *)
(*       "sleep"   time.sleep(0.5) of a waiting on_start                   *)
(*       "task"    between two tasks (on_start has returned)               *)
(*       "stopped" self.stop() was called                                  *)
(***************************************************************************)
\* locustfile_comparison.py: the class User is a subclass of one of these
ComparisonUsers == {"comparison.LocalStackUser", "comparison.AWSUser"}

ClassesOf(v) ==
  CASE v = "locustfile" -> {"ProductSetupUser", "ShopperUser"}
    [] v = "aws" -> {"AWSUser"}
    [] v = "localstack" -> {"LocalStackUser"}
    [] v = "comparison" -> ComparisonUsers

\* history of the shopping cycle a user is in
NoCycle ==
  [cart_ok |-> FALSE,      \* its create-cart request got a 200/201 with a cart id
   add_ok |-> FALSE,       \* one of its addItem requests got a 200/201/204
   carts |-> 0,            \* its create-cart requests issued
   adds |-> 0,             \*   addItem requests
   checkouts |-> 0]        \*   checkout requests

NewUser(c) ==
  [cls |-> c, pc |-> "__init__", op |-> "none", ph |-> "new", tmp |-> 0, arg |-> 0,
   customer_id |-> 0, caller |-> "none", items_left |-> 0, items_added |-> 0,
   product_id |-> None, cart_id |-> None, began_met |-> FALSE, cycle |-> NoCycle]

Call(u, site, method) == [u EXCEPT !.pc = site, !.op = method, !.ph = "wait"]

Request(u, endpoint) == [u EXCEPT !.pc = endpoint, !.op = "none", !.ph = "send"]

\* the task (or on_start) returns: locals are dropped, the engine schedules next
TaskEnd(u) ==
  [u EXCEPT !.pc = "task", !.op = "none", !.ph = "task", !.tmp = 0, !.arg = 0,
            !.caller = "none", !.items_left = 0, !.items_added = 0,
            !.product_id = None, !.cart_id = None, !.began_met = FALSE,
            !.cycle = NoCycle]

StopUser(u) == [TaskEnd(u) EXCEPT !.pc = "stopped", !.ph = "stopped"]

Sleep(u) == [u EXCEPT !.pc = "on_start", !.op = "none", !.ph = "sleep"]

\* on_start, first statement
on_start(u) ==
  CASE u.cls \in {"ShopperUser"} \cup ComparisonUsers ->
         Call(u, "on_start:is_setup_complete", "is_setup_complete")
    [] u.cls \in {"AWSUser", "LocalStackUser"} ->
         Call(u, "on_start:get_product_count", "get_product_count")
    [] u.cls = "ProductSetupUser" -> TaskEnd(u)

\* __init__ (rnd: the value random.randint draws in locustfile_comparison.py)
UserInit(u, rnd) ==
  CASE u.cls \in {"ShopperUser", "AWSUser", "LocalStackUser"} ->
         Call(u, "__init__:get_next_customer_id", "get_next_customer_id")
    [] u.cls = "ProductSetupUser" -> on_start(u)
    [] u.cls \in ComparisonUsers -> on_start([u EXCEPT !.customer_id = rnd])

\* a slip: the waiting on_start waits for the whole target
WaitThresholdTarget(c) ==
  IF c \in ComparisonUsers THEN COMPARISON_MIN_PRODUCTS ELSE NUM_INITIAL_PRODUCTS

\* a slip: ">= 0" where "> 0" was meant
WaitThresholdZero(c) == IF c \in ComparisonUsers THEN COMPARISON_MIN_PRODUCTS ELSE 0

\* the product count that lets a waiting on_start mark setup complete
WaitThreshold(c) == IF c \in ComparisonUsers THEN COMPARISON_MIN_PRODUCTS ELSE 1

\* _create_product returned ok to its caller
ReturnCreateProduct(u, ok) ==
  IF u.caller = "on_start"
  THEN IF u.cls = "AWSUser" /\ ~ok
       THEN Call(u, "on_start:get_product_count", "get_product_count")
       ELSE Call(u, "on_start:get_product_count_after", "get_product_count")
  ELSE TaskEnd(u)

\* a slip: the checkout is not guarded by items_added > 0
NextItemUnguarded(u) ==
  IF u.items_left > 0
  THEN Call([u EXCEPT !.items_left = @ - 1], "_add_item:get_random_product",
            "get_random_product")
  ELSE Request(u, "POST /shopping-carts/{id}/checkout")

\* the loop over range(num_items) and the checkout that follows it
NextItem(u) ==
  IF u.items_left > 0
  THEN Call([u EXCEPT !.items_left = @ - 1], "_add_item:get_random_product",
            "get_random_product")
  ELSE IF u.items_added > 0
       THEN Request(u, "POST /shopping-carts/{id}/checkout")
       ELSE TaskEnd(u)

\* a slip: ">" where ">=" was meant
ProductTargetReachedStrict(r, N) == r > N

\* "if shared_state.get_product_count() >= NUM_INITIAL_PRODUCTS: self.stop()"
ProductTargetReached(r, N) == r >= N

\* a slip: ">" where ">=" was meant
TargetReachedStrict(r, T) == r > T

\* "if shared_state.get_checkout_count() >= TARGET_CHECKOUTS: return"
TargetReached(r, T) == r >= T

Metric(name) == CHOOSE m \in 1..Len(MetricTypes) : MetricTypes[m] = name

\* locustfile_comparison.py: the call sites of its two tasks
ComparisonSites ==
  {"comparison.create_product:get_product_count",
   "comparison.create_product:add_product",
   "comparison.create_product:add_metric",
   "comparison.shopping_flow:get_checkout_count",
   "comparison.shopping_flow:get_random_product",
   "comparison.shopping_flow:add_metric_cart_create",
   "comparison.shopping_flow:add_metric_cart_add_item",
   "comparison.shopping_flow:add_metric_checkout",
   "comparison.shopping_flow:increment_checkout"}

\* locustfile_comparison.py: create_product and shopping_flow of LocalStackUser
\* and AWSUser after the SharedState method at site u.pc returned r
ComparisonAfterCall(u, r, N, T) ==
  CASE u.pc = "comparison.create_product:get_product_count" ->
         IF r >= N THEN TaskEnd(u) ELSE Request(u, "POST /product")
    [] u.pc = "comparison.create_product:add_product" ->
         Call([u EXCEPT !.arg = Metric("product_create")],
              "comparison.create_product:add_metric", "add_metric")
    [] u.pc = "comparison.create_product:add_metric" -> TaskEnd(u)
    [] u.pc = "comparison.shopping_flow:get_checkout_count" ->
         IF TargetReached(r, T) THEN TaskEnd(u)
         ELSE Call(u, "comparison.shopping_flow:get_random_product", "get_random_product")
    [] u.pc = "comparison.shopping_flow:get_random_product" ->
         IF r = None THEN TaskEnd(u)
         ELSE Request([u EXCEPT !.product_id = r], "POST /shopping-cart")
    [] u.pc = "comparison.shopping_flow:add_metric_cart_create" ->
         IF u.cart_id # None
         THEN Request([u EXCEPT !.arg = u.product_id], "POST /shopping-carts/{id}/addItem")
         ELSE TaskEnd(u)
    [] u.pc = "comparison.shopping_flow:add_metric_cart_add_item" ->
         IF u.cls = "comparison.LocalStackUser" \/ u.items_added > 0
         THEN Request(u, "POST /shopping-carts/{id}/checkout")
         ELSE TaskEnd(u)
    [] u.pc = "comparison.shopping_flow:add_metric_checkout" ->
         Call(u, "comparison.shopping_flow:increment_checkout", "increment_checkout")
    [] u.pc = "comparison.shopping_flow:increment_checkout" -> TaskEnd(u)

\* the caller's code after the SharedState method at site u.pc returned r / b,
\* up to its next lock acquisition, request, sleep or return
AfterCall(u, r, b, N, T) ==
  CASE u.pc = "__init__:get_next_customer_id" -> on_start([u EXCEPT !.customer_id = r])
    [] u.pc = "on_start:is_setup_complete" ->
         IF b THEN TaskEnd(u)
         ELSE Call(u, "on_start:get_product_count", "get_product_count")
    [] u.pc = "on_start:get_product_count" ->
         IF u.cls \in {"ShopperUser"} \cup ComparisonUsers
         THEN IF r >= WaitThreshold(u.cls)
              THEN Call(u, "on_start:mark_setup_complete", "mark_setup_complete")
              ELSE Sleep(u)
         ELSE IF r < N
              THEN Request([u EXCEPT !.caller = "on_start"], "POST /product")
              ELSE TaskEnd(u)
    [] u.pc = "on_start:get_product_count_after" ->
         IF r >= N
         THEN Call(u, "on_start:mark_setup_complete", "mark_setup_complete")
         ELSE Call(u, "on_start:get_product_count", "get_product_count")
    [] u.pc = "on_start:mark_setup_complete" -> TaskEnd(u)
    [] u.pc = "_create_product:add_product" -> ReturnCreateProduct(u, TRUE)
    [] u.pc = "create_product:get_product_count" ->
         IF ProductTargetReached(r, N) THEN StopUser(u) ELSE Request(u, "POST /product")
    [] u.pc = "create_product:add_product" ->
         Call(u, "create_product:get_product_count_total", "get_product_count")
    [] u.pc = "create_product:get_product_count_total" ->
         IF r >= N
         THEN Call(u, "create_product:mark_setup_complete", "mark_setup_complete")
         ELSE TaskEnd(u)
    [] u.pc = "create_product:mark_setup_complete" -> TaskEnd(u)
    [] u.pc = "shopping:get_checkout_count" ->
         IF TargetReached(r, T) THEN TaskEnd(u)
         ELSE IF u.cls = "AWSUser"
              THEN Call(u, "shopping:is_setup_complete", "is_setup_complete")
              ELSE Request(u, "POST /shopping-cart")
    [] u.pc = "shopping:is_setup_complete" ->
         IF ~b THEN Request([u EXCEPT !.caller = "task"], "POST /product")
         ELSE Request(u, "POST /shopping-cart")
    [] u.pc = "_add_item:get_random_product" ->
         IF r = None THEN NextItem(u)
         ELSE Request([u EXCEPT !.arg = r], "POST /shopping-carts/{id}/addItem")
    [] u.pc = "_checkout:increment_checkout" ->
         IF u.cls = "ShopperUser" /\ r % PROGRESS_INTERVAL = 0
         THEN Call(u, "_checkout:get_declined_count", "get_declined_count")
         ELSE IF u.cls = "LocalStackUser"
              THEN Call(u, "_checkout:get_checkout_count", "get_checkout_count")
              ELSE TaskEnd(u)
    [] u.pc = "_checkout:get_declined_count" -> TaskEnd(u)
    [] u.pc = "_checkout:get_checkout_count" -> TaskEnd(u)
    [] u.pc = "_checkout:increment_declined" -> TaskEnd(u)
    [] u.pc \in ComparisonSites -> ComparisonAfterCall(u, r, N, T)

(***************************************************************************)
(* HTTP responses.  A response is a status (0: the request raised), a body *)
(* ("ok": JSON with the expected field, "nofield": JSON without it,        *)
(* "nojson": no JSON) and, for POST /product, the product id it carries.   *)
(***************************************************************************)
CreatedOk(c, status, body) ==
  /\ body = "ok"
  /\ IF c = "ProductSetupUser" \/ c = "ShopperUser"
     THEN status = 201
     ELSE status \in {200, 201}

\* a slip: the status of the addItem response is not looked at
AddItemOkAlways(c, status) == TRUE

AddItemOk(c, status) ==
  CASE c = "ShopperUser" -> status = 204
    [] c \in ComparisonUsers -> status \in {200, 204}
    [] OTHER -> status \in {200, 201, 204}

\* the cart id a create-cart response body carries
CartIdOf(body) == IF body = "ok" THEN 1 ELSE None

\* a slip: a declined payment is handled like any other error status
DeclinedNever(status) == FALSE

\* "elif resp.status_code == 402": the payment was declined
Declined(status) == status = 402

\* a slip: the order_id of a 200 is not looked at in any variant
CheckoutCountedAny200(c, status, body) == status = 200

\* the checkout response makes the caller call increment_checkout
CheckoutCounted(c, status, body) ==
  /\ status = 200
  /\ c = "LocalStackUser" \/ body = "ok"

\* locustfile_comparison.py: the response handlers of its two tasks
ComparisonOnResponse(u, status, body, pid) ==
  CASE u.pc = "POST /product" ->
         IF CreatedOk(u.cls, status, body)
         THEN Call([u EXCEPT !.arg = pid], "comparison.create_product:add_product",
                   "add_product")
         ELSE TaskEnd(u)
    [] u.pc = "POST /shopping-cart" ->
         IF status \in {200, 201} /\ body # "nojson"
         THEN Call([u EXCEPT !.cart_id = CartIdOf(body), !.arg = Metric("cart_create")],
                   "comparison.shopping_flow:add_metric_cart_create", "add_metric")
         ELSE TaskEnd(u)
    [] u.pc = "POST /shopping-carts/{id}/addItem" ->
         IF u.cls = "comparison.LocalStackUser" /\ status = 0
         THEN TaskEnd(u)
         ELSE Call([u EXCEPT !.arg = Metric("cart_add_item"),
                             !.items_added = IF AddItemOk(u.cls, status) THEN 1 ELSE 0],
                   "comparison.shopping_flow:add_metric_cart_add_item", "add_metric")
    [] u.pc = "POST /shopping-carts/{id}/checkout" ->
         IF status \in {200, 402}
         THEN Call([u EXCEPT !.arg = Metric("checkout")],
                   "comparison.shopping_flow:add_metric_checkout", "add_metric")
         ELSE TaskEnd(u)

\* the response handler of request u.pc, up to its next lock acquisition,
\* request or return; n is the num_items drawn after a cart was created
OnResponse(u, status, body, pid, n) ==
  CASE u.cls \in ComparisonUsers -> ComparisonOnResponse(u, status, body, pid)
    [] u.pc = "POST /product" ->
         IF CreatedOk(u.cls, status, body)
         THEN IF u.cls = "ProductSetupUser"
              THEN Call([u EXCEPT !.arg = pid], "create_product:add_product", "add_product")
              ELSE Call([u EXCEPT !.arg = pid], "_create_product:add_product", "add_product")
         ELSE IF u.cls = "ProductSetupUser"
              THEN TaskEnd(u)
              ELSE ReturnCreateProduct(u, FALSE)
    [] u.pc = "POST /shopping-cart" ->
         IF CreatedOk(u.cls, status, body)
         THEN NextItem([u EXCEPT !.cart_id = CartIdOf(body), !.items_left = n,
                                 !.items_added = 0])
         ELSE TaskEnd(u)
    [] u.pc = "POST /shopping-carts/{id}/addItem" ->
         NextItem([u EXCEPT !.arg = 0,
                            !.items_added = IF AddItemOk(u.cls, status) THEN @ + 1 ELSE @])
    [] u.pc = "POST /shopping-carts/{id}/checkout" ->
         IF CheckoutCounted(u.cls, status, body)
         THEN Call(u, "_checkout:increment_checkout", "increment_checkout")
         ELSE IF Declined(status)
              THEN Call(u, "_checkout:increment_declined", "increment_declined")
              ELSE TaskEnd(u)

(***************************************************************************)
(* Reports to the metrics sink (resp.success() / resp.failure() of a       *)
(* catch_response block, events.request.fire elsewhere).                   *)
(***************************************************************************)
\* a slip: no variant expects the 503 of the bad product service
ExpectedBadServiceNever(c, status) == FALSE

\* locustfile_aws.py: "if resp.status_code == 503: resp.success()"
ExpectedBadService(c, status) == c = "AWSUser" /\ status = 503

\* the request is reported as a success
ReportedOk(c, endpoint, status, body) ==
  CASE endpoint = "POST /product" ->
         CreatedOk(c, status, body) \/ ExpectedBadService(c, status)
    [] endpoint = "POST /shopping-cart" ->
         IF c \in {"LocalStackUser"} \cup ComparisonUsers
         THEN status \in {200, 201} /\ body # "nojson"
         ELSE CreatedOk(c, status, body)
    [] endpoint = "POST /shopping-carts/{id}/addItem" -> AddItemOk(c, status)
    [] endpoint = "POST /shopping-carts/{id}/checkout" ->
         IF c \in ComparisonUsers
         THEN status \in {200, 402}
         ELSE CheckoutCounted(c, status, body) \/ Declined(status)

\* a slip: a response that cannot be parsed is dropped without a report
FiredUnlessParseError(c, endpoint, status, body) ==
  ~(status \in {200, 201} /\ body = "nojson")

\* the handler reports the request at all: LocalStackUser of
\* locustfile_comparison.py fires nothing for a created product without
\* product_id and for a create-cart response of another status than 200/201
Fired(c, endpoint, status, body) ==
  IF c = "comparison.LocalStackUser"
  THEN CASE endpoint = "POST /product" -> ~(status \in {200, 201} /\ body = "nofield")
         [] endpoint = "POST /shopping-cart" -> status \in {0, 200, 201}
         [] OTHER -> TRUE
  ELSE TRUE

\* locustfile_comparison.py names its requests by their path
PathOf(endpoint) ==
  CASE endpoint = "POST /product" -> "/product"
    [] endpoint = "POST /shopping-cart" -> "/shopping-cart"
    [] endpoint = "POST /shopping-carts/{id}/addItem" -> "/shopping-carts/{id}/addItem"
    [] endpoint = "POST /shopping-carts/{id}/checkout" -> "/shopping-carts/{id}/checkout"

\* the name the request is reported under; the one except clause of
\* LocalStackUser.shopping_flow (locustfile_comparison.py) reports a request
\* that raised (status 0) as "/shopping-cart"
ReportName(c, endpoint, status) ==
  CASE c = "comparison.LocalStackUser" /\ status = 0 /\ endpoint # "POST /product" ->
         "/shopping-cart"
    [] c \in ComparisonUsers -> PathOf(endpoint)
    [] OTHER -> endpoint

\* the reports the handler of a response makes
ReportsOf(c, endpoint, status, body) ==
  IF Fired(c, endpoint, status, body)
  THEN <<[name |-> ReportName(c, endpoint, status),
          ok |-> ReportedOk(c, endpoint, status, body)]>>
  ELSE <<>>

\* the names that stand for an endpoint
NamesOf(endpoint) == {endpoint, PathOf(endpoint)}

(***************************************************************************)
(* Tasks the engine schedules once on_start has returned.                  *)
(***************************************************************************)
TasksOf(c) ==
  CASE c = "ProductSetupUser" -> {"create_product"}
    [] c = "ShopperUser" -> {"complete_shopping_cycle"}
    [] c = "AWSUser" -> {"shopping_flow", "create_product_task"}
    [] c = "LocalStackUser" -> {"shopping_flow"}
    [] c \in ComparisonUsers -> {"create_product", "shopping_flow"}

ShoppingTasks == {"complete_shopping_cycle", "shopping_flow"}

\* history: the shopping cycle begins in a state whose checkout_count has
\* reached the target
BeginsWithTargetMet(task, s, T) == task \in ShoppingTasks /\ s.checkout_count >= T

StartTask(u, task) ==
  CASE u.cls \in ComparisonUsers /\ task = "create_product" ->
         Call(u, "comparison.create_product:get_product_count", "get_product_count")
    [] u.cls \in ComparisonUsers /\ task = "shopping_flow" ->
         Call(u, "comparison.shopping_flow:get_checkout_count", "get_checkout_count")
    [] task = "create_product" ->
         Call(u, "create_product:get_product_count", "get_product_count")
    [] task \in ShoppingTasks ->
         Call(u, "shopping:get_checkout_count", "get_checkout_count")
    [] task = "create_product_task" ->
         Request([u EXCEPT !.caller = "task"], "POST /product")

(***************************************************************************)
(* History of the run.                                                     *)
(***************************************************************************)
NoHistory ==
  [issued |-> <<>>,        \* values returned by get_next_customer_id, in order
   added |-> {},           \* ids passed to completed add_product calls
   add_calls |-> 0,        \* completed calls of add_product
   inc_calls |-> 0,        \*   of increment_checkout
   dec_calls |-> 0,        \*   of increment_declined
   inc_returns |-> <<>>,   \* values returned by increment_checkout, in order
   dec_returns |-> <<>>,   \*   by increment_declined
   requests |-> 0,         \* HTTP requests issued
   checkout_requests |-> 0,
   resp_200_order |-> 0,   \* checkout responses: 200 with an order_id
   resp_200_other |-> 0,   \*   200 without
   resp_402 |-> 0,         \*   402
   answered |-> 0,         \* requests whose response (or exception) was handled
   reported |-> 0,         \* reports made to the metrics sink
   misnamed |-> 0]         \*   of them, under the name of another endpoint

Completed(h, op, arg, r) ==
  CASE op = "get_next_customer_id" -> [h EXCEPT !.issued = Append(@, r)]
    [] op = "add_product" -> [h EXCEPT !.add_calls = @ + 1, !.added = @ \cup {arg}]
    [] op = "increment_checkout" ->
         [h EXCEPT !.inc_calls = @ + 1, !.inc_returns = Append(@, r)]
    [] op = "increment_declined" ->
         [h EXCEPT !.dec_calls = @ + 1, !.dec_returns = Append(@, r)]
    [] OTHER -> h

\* history of the cycle: a request of it was issued / answered
CycleIssued(c, endpoint) ==
  CASE endpoint = "POST /shopping-cart" -> [c EXCEPT !.carts = @ + 1]
    [] endpoint = "POST /shopping-carts/{id}/addItem" -> [c EXCEPT !.adds = @ + 1]
    [] endpoint = "POST /shopping-carts/{id}/checkout" -> [c EXCEPT !.checkouts = @ + 1]
    [] OTHER -> c

CycleAnswered(c, endpoint, status, body) ==
  CASE endpoint = "POST /shopping-cart" ->
         [c EXCEPT !.cart_ok = status \in {200, 201} /\ body = "ok"]
    [] endpoint = "POST /shopping-carts/{id}/addItem" ->
         [c EXCEPT !.add_ok = @ \/ status \in {200, 201, 204}]
    [] OTHER -> c

Issued(h, endpoint) ==
  [h EXCEPT !.requests = @ + 1,
            !.checkout_requests =
               IF endpoint = "POST /shopping-carts/{id}/checkout" THEN @ + 1 ELSE @]

Responded(h, endpoint, status, body) ==
  IF endpoint # "POST /shopping-carts/{id}/checkout" THEN h
  ELSE CASE status = 200 /\ body = "ok" -> [h EXCEPT !.resp_200_order = @ + 1]
         [] status = 200 /\ body # "ok" -> [h EXCEPT !.resp_200_other = @ + 1]
         [] status = 402 -> [h EXCEPT !.resp_402 = @ + 1]
         [] OTHER -> h

Reported(h, endpoint, reports) ==
  [h EXCEPT !.answered = @ + 1,
            !.reported = @ + Len(reports),
            !.misnamed = @ + Cardinality({k \in 1..Len(reports) :
                                            reports[k].name \notin NamesOf(endpoint)})]

\* compare_results.py before the load tests have run
NoResults ==
  [localstack |-> [shape |-> "missing", stats |-> <<>>],
   aws |-> [shape |-> "missing", stats |-> <<>>],
   history |-> FALSE,
   output |-> [exists |-> FALSE, files |-> {}]]

NotRun ==
  [pc |-> "not run", ls_csv |-> "none", aws_csv |-> "none", ls_stats |-> <<>>,
   aws_stats |-> <<>>, made_dir |-> FALSE, summary |-> <<>>, status |-> 0]

(***************************************************************************)
(* Initial states and steps.                                               *)
(***************************************************************************)
Construction ==
  /\ variant \in Variants
  /\ NUM_INITIAL_PRODUCTS \in 0..MaxProductTarget
  /\ TARGET_CHECKOUTS \in 1..MaxCheckoutTarget
  /\ lock = NoThread
  /\ shared_state = SharedState
  /\ \E c \in [Users -> ClassesOf(variant)] : th = [t \in Users |-> NewUser(c[t])]
  /\ g = NoHistory
  /\ fs = NoResults
  /\ proc = NotRun

Init == Construction /\ run_length = MaxRequests

\* the same start, of a run that the engine ends earlier
ShortInit == Construction /\ run_length = MaxShortRequests

\* a longer run, long enough for three whole shopping cycles after one product
LongInit ==
  Construction /\ run_length = MaxLongRequests /\ NUM_INITIAL_PRODUCTS = LongRunTarget

\* the configuration stays as read; compare_results.py is not run during the test
Static == UNCHANGED <<variant, NUM_INITIAL_PRODUCTS, TARGET_CHECKOUTS, run_length, fs, proc>>

\* a slip: the critical section is entered without waiting for the lock
LockNotTaken == TRUE

\* threading.Lock.acquire returns only when the lock is free
LockFree == lock = NoThread

\* a slip: the method returns to its caller with the lock still held
LockKept(l) == l

\* the "with self._lock:" block is left: the lock is free again
Released(l) == NoThread

\* random.choice draws an index of the list (0 when the list is empty)
Choices(s) == IF Len(s.product_ids) = 0 THEN {0} ELSE 1..Len(s.product_ids)

\* the engine runs __init__ of a spawned user and enters on_start
Start(t) ==
  /\ th[t].ph = "new"
  /\ \E rnd \in {1, 100000} : th' = [th EXCEPT ![t] = UserInit(th[t], rnd)]
  /\ UNCHANGED <<lock, shared_state, g>>
  /\ Static

\* "with self._lock:" entered
Acquire(t) ==
  /\ th[t].ph = "wait"
  /\ LockFree
  /\ lock' = t
  /\ th' = [th EXCEPT ![t].ph = "held"]
  /\ UNCHANGED <<shared_state, g>>
  /\ Static

\* first statement of a read-modify-write body
LoadField(t) ==
  /\ th[t].ph = "held"
  /\ th[t].op \in ReadModifyWrite
  /\ th' = [th EXCEPT ![t].ph = "held2", ![t].tmp = Load(th[t].op, shared_state)]
  /\ UNCHANGED <<lock, shared_state, g>>
  /\ Static

\* rest of the body, the release of the lock, and the caller's code that follows
Execute(t) ==
  /\ \/ th[t].ph = "held" /\ th[t].op \notin ReadModifyWrite
     \/ th[t].ph = "held2"
  /\ \E i \in Choices(shared_state) :
       LET u == th[t]
           res == Method(u.op, shared_state, u.tmp, u.arg, i)
       IN /\ shared_state' = res.s
          /\ th' = [th EXCEPT ![t] = AfterCall([u EXCEPT !.tmp = 0, !.arg = 0], res.r, res.b,
                                               NUM_INITIAL_PRODUCTS, TARGET_CHECKOUTS)]
          /\ g' = Completed(g, u.op, u.arg, res.r)
  /\ lock' = Released(lock)
  /\ Static

\* the HTTP request leaves
Send(t) ==
  /\ th[t].ph = "send"
  /\ g.requests < run_length
  /\ th' = [th EXCEPT ![t].ph = "http", ![t].cycle = CycleIssued(@, th[t].pc)]
  /\ g' = Issued(g, th[t].pc)
  /\ UNCHANGED <<lock, shared_state>>
  /\ Static

\* the statuses a request can end with (0: it raised, there is no response)
StatusesOf(endpoint) ==
  CASE endpoint = "POST /product" -> {0, 200, 201, 500, 503}
    [] endpoint = "POST /shopping-cart" -> {0, 200, 201, 500}
    [] endpoint = "POST /shopping-carts/{id}/addItem" -> {0, 200, 204, 500}
    [] endpoint = "POST /shopping-carts/{id}/checkout" -> {0, 200, 402, 500}

\* the bodies that matter to the handlers: those of a 200 or 201
BodiesOf(status) ==
  IF status \in {200, 201} THEN {"ok", "nofield", "nojson"} ELSE {"nojson"}

\* what the response to a request can carry besides status and body
ProductIdsOf(endpoint) == IF endpoint = "POST /product" THEN 1..MaxProductId ELSE {None}

NumItemsOf(endpoint) ==
  IF endpoint = "POST /shopping-cart"
  THEN MIN_ITEMS_PER_CART..MAX_ITEMS_PER_CART
  ELSE {0}

\* products created so far, counting those whose id is on its way into the list
ProductsCreated == Len(shared_state.product_ids)
                     + Cardinality({t \in Users : th[t].op = "add_product"})

\* its response (or exception) arrives and is handled
Receive(t) ==
  /\ th[t].ph = "http"
  /\ \E status \in StatusesOf(th[t].pc) :
     \E body \in BodiesOf(status), pid \in ProductIdsOf(th[t].pc),
        n \in NumItemsOf(th[t].pc) :
       /\ (th[t].pc = "POST /product" /\ CreatedOk(th[t].cls, status, body))
            => ProductsCreated < MaxProducts
       /\ th' = [th EXCEPT ![t] =
                   OnResponse([th[t] EXCEPT !.cycle = CycleAnswered(@, th[t].pc, status, body)],
                              status, body, pid, n)]
       /\ g' = Reported(Responded(g, th[t].pc, status, body), th[t].pc,
                        ReportsOf(th[t].cls, th[t].pc, status, body))
  /\ UNCHANGED <<lock, shared_state>>
  /\ Static

\* time.sleep(0.5) returns; the while condition is evaluated again
Wake(t) ==
  /\ th[t].ph = "sleep"
  /\ th' = [th EXCEPT ![t] = on_start(th[t])]
  /\ UNCHANGED <<lock, shared_state, g>>
  /\ Static

\* the engine picks the next task of a running user
Schedule(t) ==
  /\ th[t].ph = "task"
  /\ \E task \in TasksOf(th[t].cls) :
       th' = [th EXCEPT ![t] = [StartTask(th[t], task) EXCEPT !.began_met =
                                   BeginsWithTargetMet(task, shared_state, TARGET_CHECKOUTS)]]
  /\ UNCHANGED <<lock, shared_state, g>>
  /\ Static

Next ==
  \E t \in Users :
    \/ Start(t)
    \/ Acquire(t)
    \/ LoadField(t)
    \/ Execute(t)
    \/ Send(t)
    \/ Receive(t)
    \/ Wake(t)
    \/ Schedule(t)

Spec == Init /\ [][Next]_vars

LongSpec == LongInit /\ [][Next]_vars

\* Fair scheduling of the threads at the lock: a thread inside a method body
\* keeps running, and a thread blocked in acquire() gets the lock if it is
\* free again and again (the lock is handed to waiters in turn).
LockFairness ==
  \A t \in Users :
    /\ SF_vars(Acquire(t))
    /\ WF_vars(LoadField(t))
    /\ WF_vars(Execute(t))

FairSpec == ShortInit /\ [][Next]_vars /\ LockFairness

(***************************************************************************)
(* A run that the engine never ends, with a product service that answers   *)
(* every POST /product with 201 and a product_id.  No request budget and   *)
(* no request history are kept; the variants are those whose code bounds   *)
(* the product list (locustfile_aws.py creates products in a task for as   *)
(* long as it runs).                                                       *)
(***************************************************************************)
EndlessVariants == {"locustfile", "comparison"}

EndlessInit == Construction /\ run_length = 0 /\ variant \in EndlessVariants

\* the HTTP request leaves
SendUncounted(t) ==
  /\ th[t].ph = "send"
  /\ th' = [th EXCEPT ![t].ph = "http", ![t].cycle = CycleIssued(@, th[t].pc)]
  /\ UNCHANGED <<lock, shared_state, g>>
  /\ Static

HealthyStatusesOf(endpoint) ==
  IF endpoint = "POST /product" THEN {201} ELSE StatusesOf(endpoint)

HealthyBodiesOf(endpoint, status) ==
  IF endpoint = "POST /product" THEN {"ok"} ELSE BodiesOf(status)

\* declined checkouts so far, counting those on their way into the counter
Declines == shared_state.declined_count
              + Cardinality({t \in Users : th[t].op = "increment_declined"})

\* its response (or exception) arrives and is handled
ReceiveUncounted(t) ==
  /\ th[t].ph = "http"
  /\ \E status \in HealthyStatusesOf(th[t].pc) :
     \E body \in HealthyBodiesOf(th[t].pc, status), pid \in ProductIdsOf(th[t].pc),
        n \in NumItemsOf(th[t].pc) :
       /\ (th[t].pc = "POST /shopping-carts/{id}/checkout" /\ Declined(status))
            => Declines < MaxDeclined
       /\ th' = [th EXCEPT ![t] =
                   OnResponse([th[t] EXCEPT !.cycle = CycleAnswered(@, th[t].pc, status, body)],
                              status, body, pid, n)]
  /\ UNCHANGED <<lock, shared_state, g>>
  /\ Static

EndlessNext ==
  \E t \in Users :
    \/ Start(t)
    \/ Acquire(t)
    \/ LoadField(t)
    \/ Execute(t)
    \/ SendUncounted(t)
    \/ ReceiveUncounted(t)
    \/ Wake(t)
    \/ Schedule(t)

\* Fair scheduling: every greenlet that can run does run (the engine spawns
\* it, its sleep ends, its next task is picked, its request leaves and is
\* answered), and the lock is handed to its waiters in turn.
ThreadFairness ==
  \A t \in Users :
    /\ SF_vars(Acquire(t))
    /\ WF_vars(Start(t) \/ LoadField(t) \/ Execute(t) \/ SendUncounted(t)
                  \/ ReceiveUncounted(t) \/ Wake(t) \/ Schedule(t))

EndlessSpec == EndlessInit /\ [][EndlessNext]_vars /\ ThreadFairness

(***************************************************************************)
(* analysis/compare_results.py.  Numbers with decimals are fixed-point: a  *)
(* value read from a stats CSV is kept in thousandths, a value of the      *)
(* summary table in hundredths, a Difference in tenths of a percent.       *)
(***************************************************************************)
\* the Aggregated rows the stats files are drawn from
RequestCounts == {0, 3, 100, 200}
FailureCounts == {0, 1, 5, 40}
ResponseTimes == {1000, 1234, 4000}

StatsRow(name, requests, failures, time) ==
  [Name |-> name] @@ ("Request Count" :> requests) @@ ("Failure Count" :> failures)
    @@ ("Average Response Time" :> time) @@ ("Median Response Time" :> time)
    @@ ("95%" :> 2 * time) @@ ("99%" :> 4 * time) @@ ("Requests/s" :> time)

\* a results_stats.csv as locust writes it: endpoint rows, then the Aggregated row
StatsFiles ==
  {<<StatsRow("POST /product", r, f, v), StatsRow("Aggregated", r, f, v)>> :
     <<r, f, v>> \in {x \in RequestCounts \X FailureCounts \X ResponseTimes : x[2] <= x[1]}}

\* a directory inside a results directory
Subdirs == {[csv |-> TRUE, nested |-> FALSE],    \* holds results_stats.csv
            [csv |-> FALSE, nested |-> FALSE],   \* holds nothing
            [csv |-> FALSE, nested |-> TRUE]}    \* holds it one level further down

\* a results directory: absent, or with results_stats.csv in it or not, and
\* with at most one subdirectory; its stats files all have the content stats
ResultDirs ==
  {[exists |-> FALSE, csv |-> FALSE, subdirs |-> {}, stats |-> <<>>]}
    \cup {[exists |-> TRUE, csv |-> c, subdirs |-> d, stats |-> f] :
            c \in BOOLEAN, d \in {{}} \cup {{x} : x \in Subdirs},
            f \in StatsFiles \cup {<<>>}}

HoldsStats(dir) == dir.csv \/ \E d \in dir.subdirs : d.csv \/ d.nested

\* a slip: the search descends into every level
find_latest_csv_recursive(directory) ==
  IF directory.exists /\ directory.csv
  THEN [raised |-> FALSE, path |-> "results_stats.csv"]
  ELSE IF ~directory.exists
       THEN [raised |-> TRUE, path |-> "none"]
       ELSE IF \E d \in directory.subdirs : d.csv \/ d.nested
            THEN [raised |-> FALSE, path |-> "subdir/results_stats.csv"]
            ELSE [raised |-> FALSE, path |-> "none"]

\* find_latest_csv: the file in the directory, else in a subdirectory, else
\* None ("none"); iterdir() raises when the directory does not exist
find_latest_csv(directory) ==
  IF directory.exists /\ directory.csv
  THEN [raised |-> FALSE, path |-> "results_stats.csv"]
  ELSE IF ~directory.exists
       THEN [raised |-> TRUE, path |-> "none"]
       ELSE IF \E d \in directory.subdirs : d.csv
            THEN [raised |-> FALSE, path |-> "subdir/results_stats.csv"]
            ELSE [raised |-> FALSE, path |-> "none"]

\* load_stats: pd.read_csv of a file that was found
load_stats(directory, csv_path) == IF csv_path = "none" THEN <<>> ELSE directory.stats

get_aggregated_row(df) ==
  IF \E k \in 1..Len(df) : df[k].Name = "Aggregated"
  THEN df[CHOOSE k \in 1..Len(df) :
            df[k].Name = "Aggregated" /\ \A j \in 1..(k - 1) : df[j].Name # "Aggregated"]
  ELSE df[Len(df)]

safe_get(row, key) == IF key \in DOMAIN row THEN row[key] ELSE 0

Max(a, b) == IF a >= b THEN a ELSE b

\* num / den (num >= 0, den > 0) to the nearest integer, a tie to the even one
RoundHalfEven(num, den) ==
  LET q == num \div den
      r == num % den
  IN IF 2 * r < den THEN q
     ELSE IF 2 * r > den THEN q + 1
     ELSE IF q % 2 = 0 THEN q ELSE q + 1

\* str() of a natural number
RECURSIVE Decimal(_)
Decimal(n) ==
  LET digit == <<"0", "1", "2", "3", "4", "5", "6", "7", "8", "9">>[(n % 10) + 1]
  IN IF n < 10 THEN digit ELSE Decimal(n \div 10) \o digit

\* a slip: "{diff:.1f}%", which shows a sign only when negative
calc_diff_unsigned(ls_val, aws_val) ==
  IF ls_val = 0 THEN "N/A"
  ELSE LET tenths == RoundHalfEven((IF aws_val >= ls_val THEN aws_val - ls_val
                                    ELSE ls_val - aws_val) * 1000, ls_val)
       IN (IF aws_val < ls_val THEN "-" ELSE "")
            \o Decimal(tenths \div 10) \o "." \o Decimal(tenths % 10) \o "%"

\* calc_diff: "N/A" for a zero LocalStack value, else
\* f"{((aws_val - ls_val) / ls_val) * 100:+.1f}%"
calc_diff(ls_val, aws_val) ==
  IF ls_val = 0 THEN "N/A"
  ELSE LET tenths == RoundHalfEven((IF aws_val >= ls_val THEN aws_val - ls_val
                                    ELSE ls_val - aws_val) * 1000, ls_val)
       IN (IF aws_val < ls_val THEN "-" ELSE "+")
            \o Decimal(tenths \div 10) \o "." \o Decimal(tenths % 10) \o "%"

Metrics ==
  <<"Total Requests", "Failed Requests", "Failure Rate (%)", "Avg Response Time (ms)",
    "Median Response Time (ms)", "P95 Response Time (ms)", "P99 Response Time (ms)",
    "Requests/sec (RPS)">>

\* one column of summary_data, in hundredths: int(...), round(..., 2)
SummaryColumn(row) ==
  <<100 * safe_get(row, "Request Count"),
    100 * safe_get(row, "Failure Count"),
    RoundHalfEven(safe_get(row, "Failure Count") * 100 * 100,
                  Max(safe_get(row, "Request Count"), 1)),
    RoundHalfEven(safe_get(row, "Average Response Time"), 10),
    RoundHalfEven(safe_get(row, "Median Response Time"), 10),
    RoundHalfEven(safe_get(row, "95%"), 10),
    RoundHalfEven(safe_get(row, "99%"), 10),
    RoundHalfEven(safe_get(row, "Requests/s"), 10)>>

\* create_summary (every value of the two columns is a float of the frame,
\* so every row gets its calc_diff)
create_summary(localstack_stats, aws_stats) ==
  LET ls == SummaryColumn(get_aggregated_row(localstack_stats))
      aws == SummaryColumn(get_aggregated_row(aws_stats))
  IN [i \in 1..Len(Metrics) |->
        [Metric |-> Metrics[i], LocalStack |-> ls[i], AWS |-> aws[i],
         Difference |-> calc_diff(ls[i], aws[i])]]

ChartFiles ==
  {"latency_comparison.png", "throughput_comparison.png", "percentile_comparison.png",
   "failure_comparison.png"}

\* the process ends: sys.exit(status), an uncaught exception (status 1), or
\* the return of main (status 0)
Exit(p, status) == [p EXCEPT !.pc = "exited", !.status = status]

\* the fields of the load test, which is not running
NoLoadTest ==
  /\ variant = "locustfile"
  /\ NUM_INITIAL_PRODUCTS = 0
  /\ TARGET_CHECKOUTS = 1
  /\ run_length = 0
  /\ lock = NoThread
  /\ shared_state = SharedState
  /\ th = [t \in Users |-> NewUser("ShopperUser")]
  /\ g = NoHistory

CompareInit ==
  /\ NoLoadTest
  /\ \E ls \in ResultDirs, aws \in ResultDirs :
       /\ HoldsStats(ls) <=> ls.stats # <<>>
       /\ HoldsStats(aws) <=> aws.stats # <<>>
       /\ fs = [NoResults EXCEPT !.localstack = ls, !.aws = aws]
  /\ proc = [NotRun EXCEPT !.pc = "find"]

LoadTestIdle ==
  UNCHANGED <<variant, NUM_INITIAL_PRODUCTS, TARGET_CHECKOUTS, run_length, lock,
              shared_state, th, g>>

\* main: the two find_latest_csv calls
FindCsv ==
  /\ proc.pc = "find"
  /\ LET ls == find_latest_csv(fs.localstack)
         aws == find_latest_csv(fs.aws)
     IN proc' = IF ls.raised \/ aws.raised THEN Exit(proc, 1)
                ELSE [proc EXCEPT !.pc = "check", !.ls_csv = ls.path, !.aws_csv = aws.path]
  /\ UNCHANGED fs
  /\ LoadTestIdle

\* main: "if not ls_csv: ... sys.exit(1)" and "if not aws_csv: ... sys.exit(1)"
CheckFound ==
  /\ proc.pc = "check"
  /\ proc' = IF proc.ls_csv = "none" THEN Exit(proc, 1)
             ELSE IF proc.aws_csv = "none" THEN Exit(proc, 1)
             ELSE [proc EXCEPT !.pc = "load"]
  /\ UNCHANGED fs
  /\ LoadTestIdle

\* main: load_stats, load_history and the check of what was loaded
LoadData ==
  /\ proc.pc = "load"
  /\ LET ls_stats == load_stats(fs.localstack, proc.ls_csv)
         aws_stats == load_stats(fs.aws, proc.aws_csv)
     IN proc' = IF ls_stats = <<>> \/ aws_stats = <<>> THEN Exit(proc, 1)
                ELSE [proc EXCEPT !.pc = "mkdir", !.ls_stats = ls_stats,
                                  !.aws_stats = aws_stats]
  /\ UNCHANGED fs
  /\ LoadTestIdle

\* main: args.output.mkdir(parents=True, exist_ok=True)
MakeOutputDir ==
  /\ proc.pc = "mkdir"
  /\ fs' = [fs EXCEPT !.output.exists = TRUE]
  /\ proc' = [proc EXCEPT !.pc = "summary", !.made_dir = TRUE]
  /\ LoadTestIdle

\* main: create_summary and summary.to_csv
Summarize ==
  /\ proc.pc = "summary"
  /\ proc' = [proc EXCEPT !.pc = "charts",
                          !.summary = create_summary(proc.ls_stats, proc.aws_stats)]
  /\ fs' = [fs EXCEPT !.output.files = @ \cup {"summary.csv"}]
  /\ LoadTestIdle

\* main: the five plot functions (plot_timeline writes only with both histories)
Charts ==
  /\ proc.pc = "charts"
  /\ \E history \in BOOLEAN :
       fs' = [fs EXCEPT !.history = history,
                        !.output.files = @ \cup ChartFiles
                           \cup (IF history THEN {"timeline_comparison.png"} ELSE {})]
  /\ proc' = [proc EXCEPT !.pc = "report"]
  /\ LoadTestIdle

\* main: generate_report, and the return of main
Report ==
  /\ proc.pc = "report"
  /\ fs' = [fs EXCEPT !.output.files = @ \cup {"comparison_report.md"}]
  /\ proc' = Exit(proc, 0)
  /\ LoadTestIdle

CompareNext ==
  \/ FindCsv
  \/ CheckFound
  \/ LoadData
  \/ MakeOutputDir
  \/ Summarize
  \/ Charts
  \/ Report

CompareSpec == CompareInit /\ [][CompareNext]_vars

(***************************************************************************)
(* Properties.                                                             *)
(***************************************************************************)
InBody(t) == th[t].ph \in {"held", "held2"}

Calling(t, method) == th[t].op = method /\ th[t].ph \in {"wait", "held", "held2"}

InFlight(t, endpoint) == th[t].ph = "http" /\ th[t].pc = endpoint

\* C1: the values get_next_customer_id has returned, to any callers in any
\* interleaving, are pairwise distinct and are exactly 1..N for N calls.
C1_CustomerIdsExact ==
  LET n == Len(g.issued) IN
  /\ \A j, k \in 1..n : j # k => g.issued[j] # g.issued[k]
  /\ {g.issued[k] : k \in 1..n} = 1..n

\* two users have drawn their ids, the second one drawn by the first user
C1_Witness ==
  /\ Len(g.issued) >= 2
  /\ \E t1, t2 \in Users : t1 < t2 /\ th[t1].customer_id > th[t2].customer_id
                              /\ th[t2].customer_id >= 1

\* C2: at most one thread is inside a SharedState method body, and a thread
\* inside a body (where the fields are read and written) holds the lock.
C2_MutualExclusion ==
  /\ Cardinality({t \in Users : InBody(t)}) <= 1
  /\ \A t \in Users : InBody(t) => lock = t
  /\ lock # NoThread => InBody(lock)

\* one thread is inside a body while another is blocked on the lock
C2_Witness ==
  \E t1, t2 \in Users : t1 # t2 /\ InBody(t1) /\ th[t2].ph = "wait"

\* C3: checkout_count and declined_count equal the numbers of completed
\* increment_checkout and increment_declined calls, are never negative, and
\* never decrease from one state to the next.
C3_CountersExact ==
  /\ [](/\ shared_state.checkout_count = g.inc_calls
        /\ shared_state.declined_count = g.dec_calls
        /\ shared_state.checkout_count >= 0
        /\ shared_state.declined_count >= 0)
  /\ [][/\ shared_state'.checkout_count >= shared_state.checkout_count
        /\ shared_state'.declined_count >= shared_state.declined_count]_vars

\* both counters were incremented
C3_Witness ==
  /\ g.inc_calls >= 1
  /\ g.dec_calls >= 1

\* C4: the product count equals the number of completed add_product calls, and
\* that is what a get_product_count about to return has computed.
C4_ProductCountExact ==
  /\ Len(shared_state.product_ids) = g.add_calls
  /\ \A t \in Users :
       (InBody(t) /\ th[t].op = "get_product_count")
          => get_product_count(shared_state).r = g.add_calls

\* a get_product_count runs after two add_product calls have completed
C4_Witness ==
  \E t \in Users :
    /\ InBody(t)
    /\ th[t].op = "get_product_count"
    /\ g.add_calls >= 2

\* C5: get_random_product returns None exactly when the list is empty, else
\* an id passed to an earlier add_product; it leaves the list alone; and the
\* id an addItem request carries is such an id.
C5_RandomProductSound ==
  /\ \A t \in Users :
       (InBody(t) /\ th[t].op = "get_random_product") =>
          \A i \in Choices(shared_state) :
             LET res == get_random_product(shared_state, i) IN
             /\ (res.r = None) <=> (shared_state.product_ids = <<>>)
             /\ res.r # None => res.r \in g.added
             /\ res.s = shared_state
  /\ \A t \in Users :
       th[t].pc = "POST /shopping-carts/{id}/addItem" => th[t].arg \in g.added

\* a draw from a list that holds two different ids
C5_Witness ==
  \E t \in Users :
    /\ InBody(t)
    /\ th[t].op = "get_random_product"
    /\ Cardinality(g.added) >= 2

\* C6: no step takes the setup flag from true to false, and a call of
\* mark_setup_complete that runs with the flag already set changes no field
\* (N calls leave the state one call leaves).
C6_SetupCompleteMonotonic ==
  [][/\ shared_state.setup_complete => shared_state'.setup_complete
     /\ \A t \in Users :
          (/\ InBody(t)
           /\ th[t].op = "mark_setup_complete"
           /\ th'[t].ph \notin {"held", "held2"}
           /\ shared_state.setup_complete) => shared_state' = shared_state]_vars

\* a second call of mark_setup_complete is about to run with the flag set
C6_Witness ==
  \E t \in Users :
    /\ InBody(t)
    /\ th[t].op = "mark_setup_complete"
    /\ shared_state.setup_complete

\* C7: when the setup flag is set, or a caller has decided to set it, the
\* product list is not empty.
C7_SetupCompleteHasProducts ==
  (shared_state.setup_complete \/ \E t \in Users : Calling(t, "mark_setup_complete"))
     => Len(shared_state.product_ids) >= 1

\* the flag is set below the configured product target
C7_Witness ==
  /\ shared_state.setup_complete
  /\ Len(shared_state.product_ids) < NUM_INITIAL_PRODUCTS

\* no increment of a result counter is under way
CountersSettled ==
  \A t \in Users : ~Calling(t, "increment_checkout") /\ ~Calling(t, "increment_declined")

KeepsBothCounters == variant \in {"locustfile", "aws", "localstack"}

\* C8 as stated: once the increments have returned, checkout_count +
\* declined_count is the number of checkout responses with status 200 or 402.
C8_Original ==
  (KeepsBothCounters /\ CountersSettled) =>
     shared_state.checkout_count + shared_state.declined_count
        = g.resp_200_order + g.resp_200_other + g.resp_402

\* C8 amended: checkout_count is the number of 200 responses that carried an
\* order_id (in locustfile_localstack.py: of all 200 responses), declined_count
\* the number of 402 responses; no other response moves either counter.
C8_CountersMatchResponses ==
  (KeepsBothCounters /\ CountersSettled) =>
     /\ shared_state.checkout_count
          = g.resp_200_order + (IF variant = "localstack" THEN g.resp_200_other ELSE 0)
     /\ shared_state.declined_count = g.resp_402

\* a 200 without order_id was received and left uncounted, next to a counted one
C8_Witness ==
  /\ variant \in {"locustfile", "aws"}
  /\ CountersSettled
  /\ g.resp_200_other >= 1
  /\ shared_state.checkout_count + shared_state.declined_count >= 1

\* C9: while no add_product call has happened, get_random_product returns None
\* and no checkout request is issued or about to be.
C9_NoProductsNoCheckout ==
  g.add_calls = 0 =>
     /\ g.checkout_requests = 0
     /\ \A t \in Users : th[t].pc # "POST /shopping-carts/{id}/checkout"
     /\ \A t \in Users :
          (InBody(t) /\ th[t].op = "get_random_product") =>
             \A i \in Choices(shared_state) :
                get_random_product(shared_state, i).r = None

\* a cart was created and an item is drawn although no product was ever added
C9_Witness ==
  /\ g.add_calls = 0
  /\ \E t \in Users : InBody(t) /\ th[t].op = "get_random_product"

\* C10 as stated: no create-cart request is out while the setup flag is false.
C10_Original ==
  \A t \in Users : InFlight(t, "POST /shopping-cart") => shared_state.setup_complete

\* C10 amended: that holds in locustfile.py, locustfile_aws.py and
\* locustfile_comparison.py; in locustfile_localstack.py the gate is the
\* product count having reached NUM_INITIAL_PRODUCTS, not the flag.
C10_CartGated ==
  \A t \in Users :
    InFlight(t, "POST /shopping-cart") =>
       IF variant = "localstack"
       THEN Len(shared_state.product_ids) >= NUM_INITIAL_PRODUCTS
       ELSE shared_state.setup_complete

\* locustfile_localstack.py: a cart is created after the last product was
\* added by another user and before that user has set the flag
C10_Witness ==
  /\ variant = "localstack"
  /\ NUM_INITIAL_PRODUCTS >= 1
  /\ ~shared_state.setup_complete
  /\ \E t \in Users : InFlight(t, "POST /shopping-cart")

CartEndpoints ==
  {"POST /shopping-cart", "POST /shopping-carts/{id}/addItem",
   "POST /shopping-carts/{id}/checkout"}

\* C11: a shopping cycle that begins in a state where checkout_count >=
\* TARGET_CHECKOUTS issues no create-cart, addItem or checkout request; a
\* cycle that passed the target check earlier still runs increment_checkout,
\* which adds one to the counter whatever its value.
C11_StopAtTarget ==
  /\ \A t \in Users : th[t].began_met => th[t].pc \notin CartEndpoints
  /\ \A t \in Users :
       (th[t].ph = "held2" /\ th[t].op = "increment_checkout") =>
          increment_checkout(shared_state, th[t].tmp).s.checkout_count
             = shared_state.checkout_count + 1

\* one cycle reads the count after the target was met, while another, begun
\* before, is incrementing a counter that has already reached the target
C11_Witness ==
  \E t1, t2 \in Users :
    /\ th[t1].began_met
    /\ InBody(t1)
    /\ th[t1].pc = "shopping:get_checkout_count"
    /\ ~th[t2].began_met
    /\ th[t2].op = "increment_checkout"
    /\ shared_state.checkout_count >= TARGET_CHECKOUTS

\* C12: a thread that is about to send an HTTP request, has one in flight or
\* sleeps does not hold the SharedState lock.
C12_NoIoUnderLock ==
  \A t \in Users : th[t].ph \in {"send", "http", "sleep"} => lock # t

\* the second request of the run is in flight while another thread is inside
\* a method body
C12_Witness ==
  \E t1, t2 \in Users :
    /\ th[t1].ph = "http"
    /\ g.requests >= 2
    /\ lock = t2
    /\ th[t2].ph = "held"

\* C13: under fair scheduling every SharedState call that waits for the lock
\* eventually acquires it, and every holder eventually returns and releases it,
\* whatever the other callers do.
C13_CallsTerminate ==
  \A t \in Users :
    /\ (th[t].ph = "wait") ~> (lock = t)
    /\ (lock = t) ~> (lock # t)

\* a caller is blocked on the lock while another is in the middle of a
\* read-modify-write body
C13_Witness ==
  \E t1, t2 \in Users :
    /\ th[t1].ph = "wait"
    /\ lock = t2
    /\ th[t2].ph = "held2"

\* the values of a sequence are pairwise distinct and are exactly 1..Len
ExactlyOneToN(seq) ==
  /\ \A j, k \in 1..Len(seq) : j # k => seq[j] # seq[k]
  /\ {seq[k] : k \in 1..Len(seq)} = 1..Len(seq)

\* C14: the values increment_checkout has returned to its N callers, in any
\* interleaving, are exactly 1..N, each returned once; each is the counter
\* right after the caller's own increment.  The same for increment_declined.
C14_IncrementReturns ==
  /\ ExactlyOneToN(g.inc_returns)
  /\ ExactlyOneToN(g.dec_returns)
  /\ \A t \in Users :
       (th[t].ph = "held2" /\ th[t].op \in {"increment_checkout", "increment_declined"}) =>
          LET res == Method(th[t].op, shared_state, th[t].tmp, th[t].arg, 0) IN
          res.r = Load(th[t].op, res.s)

\* one increment_checkout has returned while a second caller, concurrent with
\* the first, is still on its way
C14_Witness ==
  /\ Len(g.inc_returns) = 1
  /\ \E t \in Users : th[t].ph = "held2" /\ th[t].op = "increment_checkout"

IsPrefix(a, b) == Len(a) <= Len(b) /\ \A k \in 1..Len(a) : a[k] = b[k]

\* C15: across every step the product list of the state before is a prefix of
\* the list after: ids are appended, never removed, reordered or overwritten.
C15_ProductListAppendOnly ==
  [][IsPrefix(shared_state.product_ids, shared_state'.product_ids)]_vars

\* a second, different id is about to be appended to a list that holds one
C15_Witness ==
  \E t \in Users :
    /\ InBody(t)
    /\ th[t].op = "add_product"
    /\ Len(shared_state.product_ids) = 1
    /\ th[t].arg # shared_state.product_ids[1]

ExpectsField == {"POST /product", "POST /shopping-cart", "POST /shopping-carts/{id}/checkout"}

ChangesResults == {"add_product", "increment_checkout", "increment_declined"}

\* C17: whatever request is in flight, a 200 or 201 response whose JSON body
\* lacks the expected field (product_id, shopping_cart_id, order_id) is
\* reported as a failed request and leads to no call that changes the product
\* list, checkout_count or declined_count.
C17_MissingFieldFails ==
  \A t \in Users :
    (th[t].ph = "http" /\ th[t].pc \in ExpectsField) =>
       \A status \in StatusesOf(th[t].pc) \cap {200, 201} :
       \A pid \in ProductIdsOf(th[t].pc), n \in NumItemsOf(th[t].pc) :
          LET reports == ReportsOf(th[t].cls, th[t].pc, status, "nofield")
              next == OnResponse(th[t], status, "nofield", pid, n)
          IN /\ Len(reports) = 1
             /\ ~reports[1].ok
             /\ next.op \notin ChangesResults

SetsUp == {"add_product", "mark_setup_complete"}

\* C19 as stated: a 503 response to a POST /product in flight is reported as a
\* success, in every variant, and leads to no add_product or
\* mark_setup_complete call.
C19_Original ==
  \A t \in Users :
    InFlight(t, "POST /product") =>
       LET reports == ReportsOf(th[t].cls, th[t].pc, 503, "nojson")
           next == OnResponse(th[t], 503, "nojson", None, 0)
       IN /\ Len(reports) = 1
          /\ reports[1].ok
          /\ next.op \notin SetsUp

\* C19 amended: a 503 response to POST /product leads to no add_product or
\* mark_setup_complete call in any variant; it is reported once, as a success
\* by AWSUser of locustfile_aws.py and as a failed request by every other class.
C19_BadServiceResponse ==
  \A t \in Users :
    InFlight(t, "POST /product") =>
       LET reports == ReportsOf(th[t].cls, th[t].pc, 503, "nojson")
           next == OnResponse(th[t], 503, "nojson", None, 0)
       IN /\ Len(reports) = 1
          /\ reports[1].ok <=> th[t].cls = "AWSUser"
          /\ next.op \notin SetsUp

\* locustfile_aws.py: a product request of on_start is in flight, a second try
\* after one that added nothing
C19_Witness ==
  \E t \in Users :
    /\ th[t].cls = "AWSUser"
    /\ InFlight(t, "POST /product")
    /\ th[t].caller = "on_start"
    /\ 503 \in StatusesOf(th[t].pc)
    /\ g.answered >= 1
    /\ g.add_calls = 0

C22_ShopperMarksAtFirstProduct ==
  \A t \in Users :
    (th[t].cls = "ShopperUser" /\ InBody(t)) =>
      \A i \in Choices(shared_state) :
        LET u == th[t]
            res == Method(u.op, shared_state, u.tmp, u.arg, i)
            after == AfterCall([u EXCEPT !.tmp = 0, !.arg = 0], res.r, res.b,
                               NUM_INITIAL_PRODUCTS, TARGET_CHECKOUTS)
        IN /\ (u.pc = "on_start:get_product_count"
                  /\ Len(shared_state.product_ids) >= 1)
               => (after.op = "mark_setup_complete" /\ after.ph = "wait")
           /\ (u.pc = "shopping:get_checkout_count"
                  /\ shared_state.checkout_count < TARGET_CHECKOUTS)
               => (after.pc = "POST /shopping-cart" /\ after.ph = "send")

\* the flag is set with some products but fewer than a target of two or more,
\* and a ShopperUser's create-cart request is in flight
C22_Witness ==
  /\ variant = "locustfile"
  /\ NUM_INITIAL_PRODUCTS >= 2
  /\ shared_state.setup_complete
  /\ 0 < Len(shared_state.product_ids)
  /\ Len(shared_state.product_ids) < NUM_INITIAL_PRODUCTS
  /\ \E t \in Users : th[t].cls = "ShopperUser" /\ InFlight(t, "POST /shopping-cart")

\* the classes whose tasks run shopping cycles
ShopperClasses == {"ShopperUser", "AWSUser", "LocalStackUser"} \cup ComparisonUsers

Shoppers == {t \in Users : th[t].cls \in ShopperClasses}

\* C25: with U shopper users the checkout count never exceeds
\* TARGET_CHECKOUTS + U - 1, in every variant and for every target >= 1
\* (without shopper users it stays 0): a user reads the target once per cycle
\* and increments the counter at most once per cycle.
C25_BoundedCheckoutOvershoot ==
  /\ TARGET_CHECKOUTS >= 1
  /\ IF Shoppers = {}
     THEN shared_state.checkout_count = 0
     ELSE shared_state.checkout_count <= TARGET_CHECKOUTS + Cardinality(Shoppers) - 1
  /\ \A t \in Users : th[t].cycle.checkouts <= 1

\* the bound is met: two shoppers, both past the target check when the first
\* checkout is counted, take the count to the target plus one
C25_Witness ==
  /\ Cardinality(Shoppers) = 2
  /\ shared_state.checkout_count = TARGET_CHECKOUTS + 1
  /\ g.inc_calls = 2

ProductSetupUsers == {t \in Users : th[t].cls = "ProductSetupUser"}

\* C26: in locustfile.py with S ProductSetupUsers and NUM_INITIAL_PRODUCTS >= 1
\* the product count never exceeds NUM_INITIAL_PRODUCTS + S - 1, and a
\* ProductSetupUser whose task reads a count at or above the target stops
\* without a POST /product.
C26_BoundedProductOvershoot ==
  (variant = "locustfile" /\ NUM_INITIAL_PRODUCTS >= 1) =>
    /\ ProductSetupUsers = {} => Len(shared_state.product_ids) = 0
    /\ Len(shared_state.product_ids)
          <= NUM_INITIAL_PRODUCTS + Cardinality(ProductSetupUsers) - 1
          \/ ProductSetupUsers = {}
    /\ \A t \in ProductSetupUsers :
         (InBody(t) /\ th[t].pc = "create_product:get_product_count"
            /\ Len(shared_state.product_ids) >= NUM_INITIAL_PRODUCTS)
         => LET res == Method(th[t].op, shared_state, th[t].tmp, th[t].arg, 0)
            IN AfterCall(th[t], res.r, res.b, NUM_INITIAL_PRODUCTS,
                         TARGET_CHECKOUTS).ph = "stopped"

\* the bound is met: two ProductSetupUsers, both past the check when the
\* target is reached, create one product too many; then both stop
C26_Witness ==
  /\ variant = "locustfile"
  /\ NUM_INITIAL_PRODUCTS >= 1
  /\ Cardinality(ProductSetupUsers) = 2
  /\ Len(shared_state.product_ids) = NUM_INITIAL_PRODUCTS + 1
  /\ \A t \in Users : th[t].ph = "stopped"

\* the user is not yet through __init__ and on_start
InOnStart(t) ==
  \/ th[t].ph \in {"new", "sleep"}
  \/ th[t].pc \in {"__init__", "__init__:get_next_customer_id", "on_start",
                   "on_start:is_setup_complete", "on_start:get_product_count",
                   "on_start:get_product_count_after", "on_start:mark_setup_complete"}
  \/ th[t].caller = "on_start"

\* C27: in locustfile_aws.py, for every NUM_INITIAL_PRODUCTS >= 0, once every
\* user has returned from on_start the setup_complete flag is true.
C27_SetupCompleteAfterOnStart ==
  (variant = "aws" /\ \A t \in Users : ~InOnStart(t)) => shared_state.setup_complete

\* C28: in locustfile_localstack.py a user that has returned from on_start
\* finds at least NUM_INITIAL_PRODUCTS products in the list, whichever user
\* created them; so no create-cart, addItem or checkout request is issued or
\* in flight with fewer products.
C28_ShoppingGatedByProductCount ==
  variant = "localstack" =>
    \A t \in Users :
      (~InOnStart(t) \/ (th[t].pc \in CartEndpoints /\ th[t].ph \in {"send", "http"}))
      => Len(shared_state.product_ids) >= NUM_INITIAL_PRODUCTS

\* a user's create-cart request is in flight although the only product was
\* created by another user, which is still in on_start
C28_Witness ==
  /\ variant = "localstack"
  /\ NUM_INITIAL_PRODUCTS >= 1
  /\ g.add_calls = 1
  /\ \E t, o \in Users :
       /\ InFlight(t, "POST /shopping-cart")
       /\ th[o].pc \in {"on_start:get_product_count_after", "on_start:mark_setup_complete"}

\* the field a SharedState method writes (none for the read operations)
OwnFields(op) ==
  CASE op = "add_product" -> {"product_ids"}
    [] op = "mark_setup_complete" -> {"setup_complete"}
    [] op = "increment_checkout" -> {"checkout_count"}
    [] op = "increment_declined" -> {"declined_count"}
    [] op = "get_next_customer_id" -> {"customer_id_counter"}
    [] op = "add_metric" -> {"metrics"}
    [] OTHER -> {}

\* C29: frame conditions of SharedState: a read operation (get_random_product,
\* is_setup_complete, get_checkout_count, get_declined_count,
\* get_product_count) leaves every field as it was, and a mutating operation
\* changes no field but its own.
C29_FrameConditions ==
  \A t \in Users :
    InBody(t) =>
      \A i \in Choices(shared_state) :
        LET res == Method(th[t].op, shared_state, th[t].tmp, th[t].arg, i)
        IN /\ DOMAIN res.s = DOMAIN shared_state
           /\ \A f \in DOMAIN shared_state \ OwnFields(th[t].op) :
                res.s[f] = shared_state[f]

\* increment_declined is about to write while every other field has already
\* left its initial value
C29_Witness ==
  /\ \E t \in Users : th[t].op = "increment_declined" /\ th[t].ph = "held2"
  /\ Len(shared_state.product_ids) >= 1
  /\ shared_state.setup_complete
  /\ shared_state.checkout_count >= 1
  /\ shared_state.customer_id_counter > INITIAL_CUSTOMER_ID

\* the setup phase of locustfile.py is over
SetupDone ==
  /\ Len(shared_state.product_ids) >= NUM_INITIAL_PRODUCTS
  /\ shared_state.setup_complete
  /\ \A t \in ProductSetupUsers : th[t].ph = "stopped"
  /\ \A t \in Users : th[t].cls = "ShopperUser" => ~InOnStart(t)

\* C23 as stated: in locustfile.py with NUM_INITIAL_PRODUCTS >= 1 and a
\* product service that answers every POST /product with 201 and a
\* product_id, under fair scheduling the setup phase completes, whatever
\* users run.
C23_Original ==
  (variant = "locustfile" /\ NUM_INITIAL_PRODUCTS >= 1) => <>[]SetupDone

\* C23: in locustfile.py with NUM_INITIAL_PRODUCTS >= 1, at least one
\* ProductSetupUser and a product service that answers every POST /product
\* with 201 and a product_id, under fair scheduling the setup phase completes
\* and stays complete: the product count reaches the target, setup_complete
\* is set, every ProductSetupUser has stopped (a stopped user issues no
\* request) and every ShopperUser has left on_start.
C23_SetupCompletes ==
  (variant = "locustfile" /\ NUM_INITIAL_PRODUCTS >= 1 /\ ProductSetupUsers # {})
    => <>[]SetupDone

\* setup is over in a run with a ProductSetupUser and a ShopperUser
C23_Witness ==
  /\ variant = "locustfile"
  /\ NUM_INITIAL_PRODUCTS >= 1
  /\ SetupDone
  /\ ProductSetupUsers # {}
  /\ \E t \in Users : th[t].cls = "ShopperUser"

\* C24: in locustfile_comparison.py, under fair scheduling, every user's
\* on_start wait loop eventually terminates and setup_complete eventually
\* becomes true.
C24_OnStartTerminates ==
  variant = "comparison" =>
    <>(shared_state.setup_complete /\ \A t \in Users : ~InOnStart(t))

\* the Aggregated row of the stats files of a results directory
AggregatedOf(dir) ==
  dir.stats[CHOOSE k \in 1..Len(dir.stats) : dir.stats[k].Name = "Aggregated"]

\* value (an integer) is num / den rounded to the nearest integer
Nearest(value, num, den) ==
  (IF value * den >= num THEN value * den - num ELSE num - value * den) * 2 <= den

\* "+12.3%" for tenths = 123 and a difference that is not negative
Signed(negative, tenths) ==
  (IF negative THEN "-" ELSE "+") \o Decimal(tenths \div 10) \o "."
    \o Decimal(tenths % 10) \o "%"

\* C21: in the table create_summary returns, the Failure Rate (%) of each
\* environment is Failure Count / max(Request Count, 1) * 100 to two decimals
\* (5.0 for 5 of 100, 20.0 for 40 of 200), and the Difference of each row
\* with a non-zero LocalStack value is (AWS - LocalStack) / LocalStack * 100
\* to one decimal with an explicit sign ("+300.0%" for 1 and 4).
C21_SummaryFormulas ==
  proc.summary # <<>> =>
    LET ls == AggregatedOf(fs.localstack)
        aws == AggregatedOf(fs.aws)
        rate == proc.summary[3]
    IN /\ rate.Metric = "Failure Rate (%)"
       /\ Nearest(rate.LocalStack, ls["Failure Count"] * 10000, Max(ls["Request Count"], 1))
       /\ Nearest(rate.AWS, aws["Failure Count"] * 10000, Max(aws["Request Count"], 1))
       /\ (ls["Failure Count"] = 5 /\ ls["Request Count"] = 100) => rate.LocalStack = 500
       /\ (aws["Failure Count"] = 40 /\ aws["Request Count"] = 200) => rate.AWS = 2000
       /\ \A i \in 1..Len(proc.summary) :
            LET l == proc.summary[i].LocalStack
                a == proc.summary[i].AWS
                mag == IF a >= l THEN a - l ELSE l - a
            IN l # 0 =>
                 /\ \E t \in {(mag * 1000) \div l, (mag * 1000) \div l + 1} :
                      /\ Nearest(t, mag * 1000, l)
                      /\ proc.summary[i].Difference = Signed(a < l, t)
                 /\ (l = 100 /\ a = 400) => proc.summary[i].Difference = "+300.0%"

\* the summary of 5 failures of 100 requests against 40 of 200: rates 5.0 and
\* 20.0, Difference "+300.0%"
C21_Witness ==
  /\ proc.summary # <<>>
  /\ AggregatedOf(fs.localstack)["Request Count"] = 100
  /\ AggregatedOf(fs.localstack)["Failure Count"] = 5
  /\ AggregatedOf(fs.aws)["Request Count"] = 200
  /\ AggregatedOf(fs.aws)["Failure Count"] = 40
  /\ proc.summary[3].LocalStack = 500
  /\ proc.summary[3].AWS = 2000
  /\ proc.summary[3].Difference = "+300.0%"

\* results_stats.csv is in the directory or in one of its direct subdirectories
Findable(dir) == dir.exists /\ (dir.csv \/ \E d \in dir.subdirs : d.csv)

\* C30: when the LocalStack or the AWS stats CSV cannot be found in the given
\* directory or one of its direct subdirectories, main neither creates the
\* output directory nor writes summary.csv, a chart or the report, and it
\* exits with status 1.
C30_FailsBeforeOutput ==
  (proc.pc # "not run" /\ (~Findable(fs.localstack) \/ ~Findable(fs.aws))) =>
    /\ proc.pc \in {"find", "check", "exited"}
    /\ proc.pc = "exited" => proc.status = 1
    /\ ~proc.made_dir
    /\ ~fs.output.exists
    /\ fs.output.files = {}

\* main has exited with status 1: the LocalStack file was found, the AWS file
\* lies one level too deep
C30_Witness ==
  /\ proc.pc = "exited"
  /\ proc.status = 1
  /\ Findable(fs.localstack)
  /\ fs.aws.exists
  /\ \E d \in fs.aws.subdirs : d.nested
  /\ ~fs.output.exists

====
